---------------------------- MODULE Spec2Model ----------------------------
(***************************************************************************)
(* Model of the network connection checker (Network-Checker-gui.pyw).     *)
(*                                                                         *)
(* Three parts of the program are modelled:                                *)
(*   - the resolver functions get_default_gateway, get_ip_and_interface,   *)
(*     get_logon_server, ping, dns_query and the text parsers they and the *)
(*     GUI use (Python strings are TLA+ strings, handled character by      *)
(*     character);                                                         *)
(*   - the script-style aggregation check_connection with its five         *)
(*     module-level StringVars;                                            *)
(*   - the NetworkCheckerGUI class: start_check, the worker thread running *)
(*     _run_check, the Tk "after" queue and the callbacks it dispatches.   *)
(***************************************************************************)
EXTENDS Integers, Sequences, FiniteSets, TLC

VARIABLES
    system,               \* platform.system().lower()
    call, ret,            \* last resolver/parser invocation and what it produced
    ip_result, interface_result, logon_server_result, gw_result, dns_result,
                          \* module-level StringVars written by check_connection
    run,                  \* record of the last check_connection run
    is_checking,          \* NetworkCheckerGUI.is_checking
    check_button, reset_button, status_label,
    display,              \* the five StringVars of NetworkCheckerGUI
    topology,             \* statuses last passed to _draw_topology_map
    threads,              \* worker threads started by start_check
    after_queue,          \* callbacks scheduled with root.after(0, ...)
    clicks,               \* number of start_check invocations so far
    log                   \* the callbacks the event loop has run, in order

vars == << system, call, ret,
           ip_result, interface_result, logon_server_result, gw_result, dns_result,
           run, is_checking, check_button, reset_button, status_label,
           display, topology, threads, after_queue, clicks, log >>

resolverVars == << call, ret >>
legacyVars == << ip_result, interface_result, logon_server_result, gw_result,
                 dns_result, run >>
guiVars == << is_checking, check_button, reset_button, status_label,
              display, topology, threads, after_queue, clicks, log >>

---------------------------------------------------------------------------
(* Bounds                                                                  *)

MaxLines == 2        \* lines in a generated command output
MaxClicks == 3       \* start_check invocations in one behaviour

---------------------------------------------------------------------------
(* Python str operations                                                   *)

Whitespace == {" ", "\t", "\n", "\r", "\f"}

CharAt(s, i) == SubSeq(s, i, i)

\* sub in s
Contains(s, sub) ==
    \E i \in 1..(Len(s) - Len(sub) + 1) : SubSeq(s, i, i + Len(sub) - 1) = sub

\* s.startswith(p)
StartsWith(s, p) == Len(s) >= Len(p) /\ SubSeq(s, 1, Len(p)) = p

LowerChar(c) ==
    CASE c = "A" -> "a" [] c = "B" -> "b" [] c = "C" -> "c" [] c = "D" -> "d"
      [] c = "E" -> "e" [] c = "F" -> "f" [] c = "G" -> "g" [] c = "H" -> "h"
      [] c = "I" -> "i" [] c = "J" -> "j" [] c = "K" -> "k" [] c = "L" -> "l"
      [] c = "M" -> "m" [] c = "N" -> "n" [] c = "O" -> "o" [] c = "P" -> "p"
      [] c = "Q" -> "q" [] c = "R" -> "r" [] c = "S" -> "s" [] c = "T" -> "t"
      [] c = "U" -> "u" [] c = "V" -> "v" [] c = "W" -> "w" [] c = "X" -> "x"
      [] c = "Y" -> "y" [] c = "Z" -> "z" [] OTHER -> c

\* s.lower(), by halves
RECURSIVE Lower(_)
Lower(s) ==
    IF Len(s) <= 1 THEN LowerChar(s)
    ELSE LET h == Len(s) \div 2
         IN Lower(SubSeq(s, 1, h)) \o Lower(SubSeq(s, h + 1, Len(s)))

\* the elements of a set of positions in increasing order
Ascending(S) ==
    [k \in 1..Cardinality(S) |->
        CHOOSE i \in S : Cardinality({j \in S : j < i}) = k - 1]

\* first position from p on whose character is in chars, Len(s) + 1 if none
NextIn(s, p, chars) ==
    IF \E q \in p..Len(s) : CharAt(s, q) \in chars
    THEN CHOOSE q \in p..Len(s) :
            /\ CharAt(s, q) \in chars
            /\ \A r \in p..(q - 1) : CharAt(s, r) \notin chars
    ELSE Len(s) + 1

\* s.strip()
Strip(s) ==
    LET keep == {i \in 1..Len(s) : CharAt(s, i) \notin Whitespace}
    IN IF keep = {} THEN ""
       ELSE SubSeq(s, CHOOSE i \in keep : \A j \in keep : i <= j,
                      CHOOSE i \in keep : \A j \in keep : j <= i)

\* s.split(): the maximal runs of non-whitespace characters, in order
Split(s) ==
    LET starts == {i \in 1..Len(s) :
                      /\ CharAt(s, i) \notin Whitespace
                      /\ (i = 1 \/ CharAt(s, i - 1) \in Whitespace)}
        first == Ascending(starts)
    IN [k \in 1..Len(first) |->
           SubSeq(s, first[k], NextIn(s, first[k], Whitespace) - 1)]

\* s.split('\n'): every piece between newlines, empty pieces included
SplitNl(s) ==
    LET starts == {1} \cup {i + 1 : i \in {j \in 1..Len(s) : CharAt(s, j) = "\n"}}
        first == Ascending(starts)
    IN [k \in 1..Len(first) |->
           SubSeq(s, first[k], NextIn(s, first[k], {"\n"}) - 1)]

\* s.splitlines(): lines ended by \n, \r, \r\n or \f; no empty last line
LineEnds == {"\n", "\r", "\f"}

SplitLines(s) ==
    LET ends == {i \in 1..Len(s) :
                    /\ CharAt(s, i) \in LineEnds
                    /\ ~(CharAt(s, i) = "\r" /\ i < Len(s) /\ CharAt(s, i + 1) = "\n")}
        starts == {p \in {1} \cup {i + 1 : i \in ends} : p <= Len(s)}
        first == Ascending(starts)
    IN [k \in 1..Len(first) |->
           SubSeq(s, first[k], NextIn(s, first[k], LineEnds) - 1)]

\* "\n".join(lines)
RECURSIVE JoinNl(_)
JoinNl(lines) ==
    IF lines = << >> THEN ""
    ELSE IF Len(lines) = 1 THEN lines[1]
         ELSE lines[1] \o "\n" \o JoinNl(Tail(lines))

---------------------------------------------------------------------------
(* Python values: None, return values and exceptions                       *)

None == [isNone |-> TRUE, s |-> ""]
Some(v) == [isNone |-> FALSE, s |-> v]

\* truth value of an Optional[str] in "if gateway:"
Truthy(g) == ~g.isNone /\ g.s # ""

\* A call either returns a value or raises an exception of class exc.
Ret(v) == [raised |-> FALSE, exc |-> "", val |-> v]
Raise(e) == [raised |-> TRUE, exc |-> e, val |-> ""]

\* Exception classes and their base classes (Python's hierarchy).
Bases(e) ==
    CASE e = "CalledProcessError" -> {"CalledProcessError", "SubprocessError", "Exception"}
      [] e = "FileNotFoundError" -> {"FileNotFoundError", "OSError", "Exception"}
      [] e = "gaierror" -> {"gaierror", "OSError", "Exception"}
      [] e = "herror" -> {"herror", "OSError", "Exception"}
      [] e = "OSError" -> {"OSError", "Exception"}
      [] OTHER -> {e, "Exception"}

\* "except cls:" catches an exception of class e
Catches(cls, e) == cls \in Bases(e)

\* What one OS call does: subprocess.check_output gives the captured text,
\* raises CalledProcessError on a non-zero exit status, or raises an OSError
\* (FileNotFoundError) when the process cannot be launched.
Ok(text) == [kind |-> "ok", output |-> text]
Fails(e) == [kind |-> e, output |-> ""]

check_output(outcome) ==
    IF outcome.kind = "ok" THEN Ret(outcome.output) ELSE Raise(outcome.kind)

---------------------------------------------------------------------------
(* Resolvers                                                               *)

\* Variant of ScanIpconfig that gives up at the first "Default Gateway" line
\* when that line has fewer than 4 tokens.
RECURSIVE ScanIpconfig_StopAtFirstMatch(_)
ScanIpconfig_StopAtFirstMatch(lines) ==
    IF lines = << >> THEN None
    ELSE LET line == Head(lines)
             parts == Split(line)
         IN IF Contains(line, "Default Gateway")
            THEN (IF Len(parts) >= 4 THEN Some(parts[Len(parts)]) ELSE None)
            ELSE ScanIpconfig_StopAtFirstMatch(Tail(lines))

\* The Windows loop of get_default_gateway over output.splitlines()
RECURSIVE ScanIpconfig(_)
ScanIpconfig(lines) ==
    IF lines = << >> THEN None
    ELSE LET line == Head(lines)
             parts == Split(line)
         IN IF Contains(line, "Default Gateway") /\ Len(parts) >= 4
            THEN Some(parts[Len(parts)])
            ELSE ScanIpconfig(Tail(lines))

\* Variant of ScanIpRoute that takes parts[1] instead of parts[2].
RECURSIVE ScanIpRoute_SecondToken(_)
ScanIpRoute_SecondToken(lines) ==
    IF lines = << >> THEN None
    ELSE LET line == Head(lines)
             parts == Split(line)
         IN IF StartsWith(line, "default via") /\ Len(parts) >= 3
            THEN Some(parts[2])
            ELSE ScanIpRoute_SecondToken(Tail(lines))

\* The POSIX loop of get_default_gateway over output.splitlines()
RECURSIVE ScanIpRoute(_)
ScanIpRoute(lines) ==
    IF lines = << >> THEN None
    ELSE LET line == Head(lines)
             parts == Split(line)
         IN IF StartsWith(line, "default via") /\ Len(parts) >= 3
            THEN Some(parts[3])
            ELSE ScanIpRoute(Tail(lines))

ParseGateway(sys, output) ==
    IF sys = "windows" THEN ScanIpconfig(SplitLines(output))
    ELSE ScanIpRoute(SplitLines(output))

get_default_gateway(sys, outcome) ==
    LET r == check_output(outcome)
    IN IF r.raised
       THEN (IF Catches("CalledProcessError", r.exc) THEN Ret(None) ELSE r)
       ELSE Ret(ParseGateway(sys, r.val))

\* The two loops of get_ip_and_interface; table is the sequence of
\* (interface, addrs) items of psutil.net_if_addrs().
RECURSIVE ScanAddrs(_, _)
ScanAddrs(interface, addrs) ==
    IF addrs = << >> THEN None
    ELSE LET addr == Head(addrs)
         IN IF addr.family = "AF_INET" /\ ~StartsWith(addr.address, "127.")
            THEN Some(addr.address)
            ELSE ScanAddrs(interface, Tail(addrs))

RECURSIVE ScanInterfaces(_)
ScanInterfaces(table) ==
    IF table = << >> THEN << "N/A", "N/A" >>
    ELSE LET found == ScanAddrs(Head(table).interface, Head(table).addrs)
         IN IF ~found.isNone THEN << found.s, Head(table).interface >>
            ELSE ScanInterfaces(Tail(table))

\* outcome.kind is "ok" with outcome.table, or the class of the exception
\* psutil.net_if_addrs() raised.
get_ip_and_interface(outcome) ==
    IF outcome.kind = "ok" THEN Ret(ScanInterfaces(outcome.table))
    ELSE IF Catches("Exception", outcome.kind) THEN Ret(<< "N/A", "N/A" >>)
         ELSE Raise(outcome.kind)

get_logon_server(sys, outcome) ==
    IF sys = "windows"
    THEN LET r == check_output(outcome)
         IN IF r.raised
            THEN (IF Catches("CalledProcessError", r.exc) THEN Ret("N/A") ELSE r)
            ELSE Ret(Strip(r.val))
    ELSE Ret("N/A")

\* the command line ping builds for host
PingCommand(sys, host) ==
    << "ping", IF sys = "windows" THEN "-n" ELSE "-c", "1", host >>

ping(sys, host, outcome) ==
    LET r == check_output(outcome)
    IN IF r.raised
       THEN (IF Catches("CalledProcessError", r.exc) THEN Ret("Ping failed") ELSE r)
       ELSE r

\* outcome of socket.gethostbyname: "ok" with the address, or the class of
\* the socket error it raised.
gethostbyname(outcome) ==
    IF outcome.kind = "ok" THEN Ret(outcome.output) ELSE Raise(outcome.kind)

\* a return value together with the number of resolver calls made for it
WithLookups(r, n) ==
    [raised |-> r.raised, exc |-> r.exc, val |-> r.val, lookups |-> n]

\* Variant of dns_query whose handler is "except socket.gaierror".
dns_query_GaierrorOnly(hostname, outcome) ==
    LET r == gethostbyname(outcome)
    IN IF r.raised
       THEN (IF Catches("gaierror", r.exc)
             THEN WithLookups(Ret("DNS resolution failed"), 1)
             ELSE WithLookups(r, 1))
       ELSE WithLookups(r, 1)

\* dns_query: val is the returned string, lookups counts the calls of
\* socket.gethostbyname.
dns_query(hostname, outcome) ==
    LET r == gethostbyname(outcome)
    IN IF r.raised
       THEN (IF Catches("OSError", r.exc)
             THEN WithLookups(Ret("DNS resolution failed"), 1)
             ELSE WithLookups(r, 1))
       ELSE WithLookups(r, 1)

---------------------------------------------------------------------------
(* The probe summary of the GUI                                            *)

\* first line of the Windows branch of _parse_ping_output that is returned
RECURSIVE ScanPingWindows(_)
ScanPingWindows(lines) ==
    IF lines = << >> THEN "Success"
    ELSE LET line == Head(lines)
         IN IF Contains(line, "Reply from") \/ Contains(line, "Request timed out")
            THEN Strip(line)
            ELSE IF Contains(line, "Packets:")
                 THEN Strip(line)
                 ELSE ScanPingWindows(Tail(lines))

\* first line of the Linux/Mac branch of _parse_ping_output that is returned
RECURSIVE ScanPingPosix(_)
ScanPingPosix(lines) ==
    IF lines = << >> THEN "Success"
    ELSE LET line == Head(lines)
         IN IF Contains(Lower(line), "bytes from")
            THEN Strip(line)
            ELSE ScanPingPosix(Tail(lines))

_parse_ping_output(sys, ping_output) ==
    IF Contains(ping_output, "Ping failed") \/ Contains(Lower(ping_output), "timeout")
    THEN ping_output
    ELSE IF sys = "windows"
         THEN ScanPingWindows(SplitNl(ping_output))
         ELSE ScanPingPosix(SplitNl(ping_output))

---------------------------------------------------------------------------
(* Inputs of the resolvers and parsers                                     *)

Systems == {"windows", "posix"}

\* all texts of at most MaxLines lines taken from lines
Texts(lines) ==
    { JoinNl(ls) : ls \in UNION { [1..n -> lines] : n \in 0..MaxLines } }

IpconfigLines ==
    { "   Default Gateway . . . . . . . : 192.168.1.1",
      "   Default Gateway . . . . . . . . . :",
      "Default Gateway . : 172.16.0.1",
      "Default Gateway: 10.0.0.1",
      "Default Gateway",
      "   IPv4 Address. . . . . . . . . . . : 192.168.1.23",
      "" }

IpRouteLines ==
    { "default via 10.0.0.1 dev eth0",
      "default via 192.168.1.254 dev wlan0 proto dhcp metric 600",
      "default via",
      "default via10.0.0.7",
      " default via 10.0.0.9 dev eth1",
      "192.168.1.0/24 dev eth0 proto kernel scope link src 192.168.1.23" }

GatewayOutcomes ==
    { Ok(t) : t \in Texts(IpconfigLines \cup IpRouteLines) }
        \cup { Fails("CalledProcessError"), Fails("OSError") }

Addr(family, address) == [family |-> family, address |-> address]
Iface(name, addrs) == [interface |-> name, addrs |-> addrs]

IfTables ==
    { << >>,
      << Iface("lo", << Addr("AF_INET", "127.0.0.1") >>) >>,
      << Iface("lo", << Addr("AF_INET", "127.0.0.1") >>),
         Iface("eth0", << Addr("AF_INET6", "fe80::1"), Addr("AF_INET", "192.168.1.23") >>),
         Iface("wlan0", << Addr("AF_INET", "10.0.0.5") >>) >>,
      << Iface("eth0", << Addr("AF_PACKET", "00:11:22:33:44:55") >>),
         Iface("wlan0", << Addr("AF_INET", "10.0.0.5"), Addr("AF_INET", "10.0.0.6") >>) >> }

IfOutcomes ==
    { [kind |-> "ok", table |-> t] : t \in IfTables }
        \cup { [kind |-> e, table |-> << >>] : e \in {"OSError", "RuntimeError"} }

LogonOutcomes ==
    { Ok("\\\\DC01\n"), Ok("%logonserver%\n"), Ok("\n"),
      Fails("CalledProcessError"), Fails("OSError") }

PingLines ==
    { "Reply from 192.168.1.1: bytes=32 time<1ms TTL=64",
      "Request timed out.",
      "    Packets: Sent = 1, Received = 0, Lost = 1 (100% loss),",
      "64 bytes from 10.0.0.1: icmp_seq=1 ttl=64 time=0.5 ms",
      "Pinging 192.168.1.1 with 32 bytes of data:",
      "PING 10.0.0.1 (10.0.0.1) 56(84) bytes of data.",
      "Ping failed",
      "Connection Timeout",
      "" }

PingTexts == Texts(PingLines)

PingOutcomes ==
    { Ok(t) : t \in PingTexts }
        \cup { Fails("CalledProcessError"), Fails("FileNotFoundError") }

Hosts == {"192.168.1.1", "8.8.8.8"}

Hostnames == {"google.com", "nonexistent.invalid"}

DnsOutcomes ==
    { Ok("142.250.72.14"), Ok("93.184.216.34"),
      Fails("gaierror"), Fails("herror"), Fails("OSError") }

---------------------------------------------------------------------------
(* Initial values shared by the specifications                             *)

Idle == [fn |-> "", arg |-> "", outcome |-> Ok("")]

NoRun == [calls |-> << >>, raised |-> FALSE, returned |-> FALSE, gateway |-> None]

InitResolverVars == call = Idle /\ ret = Ret("")

InitLegacyVars ==
    /\ ip_result = ""
    /\ interface_result = ""
    /\ logon_server_result = ""
    /\ gw_result = ""
    /\ dns_result = ""
    /\ run = NoRun

Cleared ==
    [ip_result |-> "", interface_result |-> "", logon_server_result |-> "",
     gw_result |-> "", dns_result |-> ""]

UnknownMap == [gw |-> "unknown", internet |-> "unknown", dc |-> "unknown"]

InitGuiVars ==
    /\ is_checking = FALSE
    /\ check_button = [state |-> "normal", text |-> "Check Connection"]
    /\ reset_button = [state |-> "normal"]
    /\ status_label = "Ready"
    /\ display = Cleared
    /\ topology = UnknownMap
    /\ threads = << >>
    /\ after_queue = << >>
    /\ clicks = 0
    /\ log = << >>

---------------------------------------------------------------------------
(* Specification of the resolvers and parsers: each action is one call    *)
(* with one behaviour of the operating system.  The functions keep no     *)
(* state between calls, so a behaviour makes one call.                     *)

CallGetDefaultGateway ==
    \E o \in GatewayOutcomes :
        /\ call = Idle
        /\ call' = [fn |-> "get_default_gateway", arg |-> "", outcome |-> o]
        /\ ret' = get_default_gateway(system, o)

CallGetIpAndInterface ==
    \E o \in IfOutcomes :
        /\ call = Idle
        /\ call' = [fn |-> "get_ip_and_interface", arg |-> "", outcome |-> o]
        /\ ret' = get_ip_and_interface(o)

CallGetLogonServer ==
    \E o \in LogonOutcomes :
        /\ call = Idle
        /\ call' = [fn |-> "get_logon_server", arg |-> "", outcome |-> o]
        /\ ret' = get_logon_server(system, o)

CallPing ==
    \E host \in Hosts, o \in PingOutcomes :
        /\ call = Idle
        /\ call' = [fn |-> "ping", arg |-> host, outcome |-> o]
        /\ ret' = ping(system, host, o)

CallDnsQuery ==
    \E hostname \in Hostnames, o \in DnsOutcomes :
        /\ call = Idle
        /\ call' = [fn |-> "dns_query", arg |-> hostname, outcome |-> o]
        /\ ret' = dns_query(hostname, o)

CallParsePingOutput ==
    \E t \in PingTexts :
        /\ call = Idle
        /\ call' = [fn |-> "_parse_ping_output", arg |-> t, outcome |-> Ok("")]
        /\ ret' = Ret(_parse_ping_output(system, t))

InitResolvers ==
    /\ system \in Systems
    /\ InitResolverVars /\ InitLegacyVars /\ InitGuiVars

NextResolvers ==
    /\ \/ CallGetDefaultGateway
       \/ CallGetIpAndInterface
       \/ CallGetLogonServer
       \/ CallPing
       \/ CallDnsQuery
       \/ CallParsePingOutput
    /\ UNCHANGED << system, legacyVars, guiVars >>

SpecResolvers == InitResolvers /\ [][NextResolvers]_vars

---------------------------------------------------------------------------
(* check_connection: the aggregation of the script, run as one handler of *)
(* the Tk event loop.  It writes the five module-level StringVars.         *)

Step(fn, arg) == [fn |-> fn, arg |-> arg]

\* how a run of check_connection ends: the StringVars, the calls it made in
\* order, whether an exception left it, and what get_default_gateway
\* returned (returned is FALSE when that call raised)
Outcome(vars5, calls, raised, returned, gateway) ==
    [vars5 |-> vars5, calls |-> calls, raised |-> raised,
     returned |-> returned, gateway |-> gateway]

\* The last statements of check_connection: dns_query and dns_result.set
CheckConnectionDns(env, vars5, calls, gateway) ==
    LET dns_ip == dns_query("google.com", env.dns)
        done == Append(calls, Step("dns_query", "google.com"))
    IN IF dns_ip.raised
       THEN Outcome(vars5, done, TRUE, TRUE, gateway)
       ELSE Outcome([vars5 EXCEPT !.dns_result = "DNS google.com: " \o dns_ip.val],
                    done, FALSE, TRUE, gateway)

\* Variant of CheckConnectionGateway that also probes the internet anchor
\* 8.8.8.8 after the gateway branch.
CheckConnectionGateway_WithAnchorProbe(sys, env, vars5, calls, gateway) ==
    LET probed == IF Truthy(gateway)
                  THEN Append(calls, Step("ping", gateway.s)) ELSE calls
        gw_text == IF Truthy(gateway)
                   THEN "Gateway (" \o gateway.s \o "):\n"
                            \o ping(sys, gateway.s, env.ping).val
                   ELSE "Gateway not found"
        anchor == ping(sys, "8.8.8.8", env.ping)
        done == Append(probed, Step("ping", "8.8.8.8"))
    IN IF anchor.raised
       THEN Outcome(vars5, done, TRUE, TRUE, gateway)
       ELSE CheckConnectionDns(env, [vars5 EXCEPT !.gw_result = gw_text],
                               done, gateway)

\* The "if gateway:" statement of check_connection
CheckConnectionGateway(sys, env, vars5, calls, gateway) ==
    IF Truthy(gateway)
    THEN LET ping_result == ping(sys, gateway.s, env.ping)
             done == Append(calls, Step("ping", gateway.s))
         IN IF ping_result.raised
            THEN Outcome(vars5, done, TRUE, TRUE, gateway)
            ELSE CheckConnectionDns(env,
                     [vars5 EXCEPT !.gw_result =
                         "Gateway (" \o gateway.s \o "):\n" \o ping_result.val],
                     done, gateway)
    ELSE CheckConnectionDns(env, [vars5 EXCEPT !.gw_result = "Gateway not found"],
                            calls, gateway)

\* check_connection from its first statement; vars5 holds the StringVars
\* before the run and env what each OS call of this run does.
CheckConnection(sys, env, vars5) ==
    LET gateway == get_default_gateway(sys, env.ipconfig)
        c1 == << Step("get_default_gateway", "") >>
    IN IF gateway.raised THEN Outcome(vars5, c1, TRUE, FALSE, None)
       ELSE
    LET pair == get_ip_and_interface(env.ifaddrs)
        c2 == Append(c1, Step("get_ip_and_interface", ""))
    IN IF pair.raised THEN Outcome(vars5, c2, TRUE, TRUE, gateway.val)
       ELSE
    LET logon_server == get_logon_server(sys, env.logon)
        c3 == Append(c2, Step("get_logon_server", ""))
    IN IF logon_server.raised THEN Outcome(vars5, c3, TRUE, TRUE, gateway.val)
       ELSE
    CheckConnectionGateway(sys, env,
        [vars5 EXCEPT !.ip_result = "IP: " \o pair.val[1],
                      !.interface_result = "Interface: " \o pair.val[2],
                      !.logon_server_result = "Logon Server: " \o logon_server.val],
        c3, gateway.val)

\* what the OS calls of one run can do
LegacyEnvs ==
    [ipconfig : { Ok("   Default Gateway . . . . . . . : 192.168.1.1"),
                  Ok("default via 10.0.0.1 dev eth0"),
                  Fails("CalledProcessError"), Fails("OSError") },
     ifaddrs : { [kind |-> "ok",
                  table |-> << Iface("lo", << Addr("AF_INET", "127.0.0.1") >>),
                               Iface("eth0", << Addr("AF_INET", "192.168.1.23") >>) >>],
                 [kind |-> "OSError", table |-> << >>] },
     logon : { Ok("\\\\DC01\n"), Fails("CalledProcessError"), Fails("OSError") },
     ping : { Ok("Reply from 192.168.1.1: bytes=32 time<1ms TTL=64"),
              Fails("CalledProcessError"), Fails("FileNotFoundError") },
     dns : { Ok("142.250.72.14"), Fails("gaierror") }]

StringVars5 ==
    [ip_result |-> ip_result, interface_result |-> interface_result,
     logon_server_result |-> logon_server_result, gw_result |-> gw_result,
     dns_result |-> dns_result]

\* the button command: one run of check_connection
check_connection ==
    \E env \in LegacyEnvs :
        LET out == CheckConnection(system, env, StringVars5)
        IN /\ ip_result' = out.vars5.ip_result
           /\ interface_result' = out.vars5.interface_result
           /\ logon_server_result' = out.vars5.logon_server_result
           /\ gw_result' = out.vars5.gw_result
           /\ dns_result' = out.vars5.dns_result
           /\ run' = [calls |-> out.calls, raised |-> out.raised,
                      returned |-> out.returned, gateway |-> out.gateway]

InitLegacy ==
    /\ system \in Systems
    /\ InitResolverVars /\ InitLegacyVars /\ InitGuiVars

NextLegacy ==
    /\ check_connection
    /\ UNCHANGED << system, resolverVars, guiVars >>

SpecLegacy == InitLegacy /\ [][NextLegacy]_vars

---------------------------------------------------------------------------
(* NetworkCheckerGUI                                                       *)

\* A report of NetworkChecker.run_all_checks: every field populated;
\* gateway and gateway_ping are absent when no gateway was found.
Report(ip, interface, logon_server, gateway, gateway_ping, internet_ping, dns) ==
    [ip |-> ip, interface |-> interface, logon_server |-> logon_server,
     gateway |-> gateway, gateway_ping |-> gateway_ping,
     internet_ping |-> internet_ping, dns_results |-> dns]

Reports ==
    { Report("192.168.1.23", "eth0", "\\\\DC01", Some("192.168.1.1"),
             Some("Pinging 192.168.1.1 with 32 bytes of data:\nReply from 192.168.1.1: bytes=32 time<1ms TTL=64"),
             "Reply from 8.8.8.8: bytes=32 time=12ms TTL=117",
             << << "google.com", "142.250.72.14" >> >>),
      Report("10.0.0.5", "wlan0", "N/A", Some("10.0.0.1"),
             Some("PING 10.0.0.1 (10.0.0.1) 56(84) bytes of data.\n64 bytes from 10.0.0.1: icmp_seq=1 ttl=64 time=0.5 ms"),
             "Ping failed",
             << << "google.com", "142.250.72.14" >>,
                << "nonexistent.invalid", "DNS resolution failed" >> >>),
      Report("N/A", "N/A", "Not available", None, None, "Ping failed",
             << << "google.com", "DNS resolution failed" >> >>) }

\* run_all_checks returns a report or raises an aggregator-level error
RunOutcomes ==
    { [raised |-> FALSE, results |-> r, error |-> ""] : r \in Reports }
        \cup { [raised |-> TRUE, results |-> CHOOSE r \in Reports : TRUE,
                error |-> "no DNS targets configured"] }

\* the text _update_results builds from results['dns_results']
RECURSIVE DnsLines(_)
DnsLines(items) ==
    IF items = << >> THEN ""
    ELSE "  " \o Head(items)[1] \o " → " \o Head(items)[2] \o "\n"
             \o DnsLines(Tail(items))

DnsText(items) == Strip("DNS Resolution:\n" \o DnsLines(items))

\* the three statuses _update_results passes to _draw_topology_map
GwStatus(results) ==
    IF Truthy(results.gateway) /\ Contains(results.gateway_ping.s, "Reply from")
    THEN "success"
    ELSE IF Truthy(results.gateway) THEN "failure" ELSE "unknown"

InternetStatus(results) ==
    IF Contains(results.internet_ping, "Reply from")
          \/ StartsWith(results.internet_ping, "64 bytes")
    THEN "success" ELSE "failure"

DcStatus(results) ==
    IF results.logon_server # "" /\ results.logon_server # "Not available"
    THEN "success" ELSE "failure"

\* the five StringVars after _update_results(results)
Shown(sys, results) ==
    [ip_result |-> "IP Address: " \o results.ip,
     interface_result |-> "Network Interface: " \o results.interface,
     logon_server_result |-> "Logon Server: " \o results.logon_server,
     gw_result |->
        IF Truthy(results.gateway)
        THEN "Gateway: " \o results.gateway.s \o "\nPing Result: "
                 \o _parse_ping_output(sys, results.gateway_ping.s)
        ELSE "Gateway: Not found",
     dns_result |-> DnsText(results.dns_results)]

Worker(pc, outcome) == [pc |-> pc, outcome |-> outcome]

Callback(fn, results, error_msg, check) ==
    [fn |-> fn, results |-> results, error_msg |-> error_msg, check |-> check]

NoResults == CHOOSE r \in Reports : TRUE

\* number of workers inside run_all_checks
InFlight == Cardinality({i \in 1..Len(threads) : threads[i].pc = "run_all_checks"})

\* Variant of start_check without the is_checking test.
start_check_Unguarded ==
    /\ clicks < MaxClicks
    /\ clicks' = clicks + 1
    /\ is_checking' = TRUE
    /\ check_button' = [state |-> "disabled", text |-> "Checking..."]
    /\ reset_button' = [state |-> "disabled"]
    /\ display' = Cleared
    /\ status_label' = "Ready"
    /\ topology' = UnknownMap
    /\ threads' = Append(threads, Worker("run_all_checks", CHOOSE o \in RunOutcomes : TRUE))
    /\ UNCHANGED << after_queue, log >>

\* start_check, with the reset_app() call it makes before starting the thread
start_check ==
    /\ clicks < MaxClicks
    /\ clicks' = clicks + 1
    /\ IF is_checking
       THEN UNCHANGED << is_checking, check_button, reset_button, status_label,
                         display, topology, threads, after_queue, log >>
       ELSE /\ is_checking' = TRUE
            /\ check_button' = [state |-> "disabled", text |-> "Checking..."]
            /\ reset_button' = [state |-> "disabled"]
            /\ display' = Cleared
            /\ status_label' = "Ready"
            /\ topology' = UnknownMap
            /\ threads' = Append(threads,
                              Worker("run_all_checks", CHOOSE o \in RunOutcomes : TRUE))
            /\ UNCHANGED << after_queue, log >>

\* the worker's call of run_all_checks comes back, with a report or an
\* exception
run_all_checks ==
    \E i \in 1..Len(threads), o \in RunOutcomes :
        /\ threads[i].pc = "run_all_checks"
        /\ threads' = [threads EXCEPT ![i] = Worker("deliver", o)]
        /\ UNCHANGED << is_checking, check_button, reset_button, status_label,
                        display, topology, after_queue, clicks, log >>

\* Variant of _run_check_deliver whose except clause schedules nothing.
_run_check_deliver_SilentError ==
    \E i \in 1..Len(threads) :
        /\ threads[i].pc = "deliver"
        /\ after_queue' =
              IF threads[i].outcome.raised THEN after_queue
              ELSE Append(after_queue,
                       Callback("_update_results", threads[i].outcome.results, "", i))
        /\ threads' = [threads EXCEPT ![i].pc = "finally"]
        /\ UNCHANGED << is_checking, check_button, reset_button, status_label,
                        display, topology, clicks, log >>

\* _run_check after run_all_checks: root.after(0, _update_results, results),
\* or the except clause with root.after(0, _show_error, error_msg)
_run_check_deliver ==
    \E i \in 1..Len(threads) :
        /\ threads[i].pc = "deliver"
        /\ after_queue' = Append(after_queue,
              IF threads[i].outcome.raised
              THEN Callback("_show_error", NoResults,
                            "Error: " \o threads[i].outcome.error, i)
              ELSE Callback("_update_results", threads[i].outcome.results, "", i))
        /\ threads' = [threads EXCEPT ![i].pc = "finally"]
        /\ UNCHANGED << is_checking, check_button, reset_button, status_label,
                        display, topology, clicks, log >>

\* Variant of _run_check_finally that schedules _check_complete only after
\* the try block (no finally clause), so not when run_all_checks raised.
_run_check_finally_NotOnError ==
    \E i \in 1..Len(threads) :
        /\ threads[i].pc = "finally"
        /\ after_queue' =
              IF threads[i].outcome.raised THEN after_queue
              ELSE Append(after_queue, Callback("_check_complete", NoResults, "", i))
        /\ threads' = [threads EXCEPT ![i].pc = "done"]
        /\ UNCHANGED << is_checking, check_button, reset_button, status_label,
                        display, topology, clicks, log >>

\* the finally clause of _run_check: root.after(0, _check_complete)
_run_check_finally ==
    \E i \in 1..Len(threads) :
        /\ threads[i].pc = "finally"
        /\ after_queue' = Append(after_queue, Callback("_check_complete", NoResults, "", i))
        /\ threads' = [threads EXCEPT ![i].pc = "done"]
        /\ UNCHANGED << is_checking, check_button, reset_button, status_label,
                        display, topology, clicks, log >>

\* what the log keeps of a callback the event loop runs: the callback, the
\* check it belongs to, and is_checking and the button state at that moment
Dispatched(cb) ==
    [fn |-> cb.fn, check |-> cb.check, results |-> cb.results,
     is_checking |-> is_checking, check_button |-> check_button.state]

\* The event loop runs the callback scheduled first.
_update_results ==
    /\ after_queue # << >>
    /\ Head(after_queue).fn = "_update_results"
    /\ display' = Shown(system, Head(after_queue).results)
    /\ topology' = [gw |-> GwStatus(Head(after_queue).results),
                    internet |-> InternetStatus(Head(after_queue).results),
                    dc |-> DcStatus(Head(after_queue).results)]
    /\ status_label' = "Check completed successfully"
    /\ after_queue' = Tail(after_queue)
    /\ log' = Append(log, Dispatched(Head(after_queue)))
    /\ UNCHANGED << is_checking, check_button, reset_button, threads, clicks >>

_show_error ==
    /\ after_queue # << >>
    /\ Head(after_queue).fn = "_show_error"
    /\ status_label' = "Error: " \o Head(after_queue).error_msg
    /\ after_queue' = Tail(after_queue)
    /\ log' = Append(log, Dispatched(Head(after_queue)))
    /\ UNCHANGED << is_checking, check_button, reset_button, display, topology,
                    threads, clicks >>

_check_complete ==
    /\ after_queue # << >>
    /\ Head(after_queue).fn = "_check_complete"
    /\ is_checking' = FALSE
    /\ check_button' = [state |-> "normal", text |-> "Check Connection"]
    /\ reset_button' = [state |-> "normal"]
    /\ after_queue' = Tail(after_queue)
    /\ log' = Append(log, Dispatched(Head(after_queue)))
    /\ UNCHANGED << status_label, display, topology, threads, clicks >>

\* the Clear/Reset button, which can be pressed while it is enabled
reset_app ==
    /\ reset_button.state = "normal"
    /\ display' = Cleared
    /\ status_label' = "Ready"
    /\ topology' = UnknownMap
    /\ UNCHANGED << is_checking, check_button, reset_button, threads,
                    after_queue, clicks, log >>

Init ==
    /\ system \in Systems
    /\ InitResolverVars /\ InitLegacyVars /\ InitGuiVars

Next ==
    /\ \/ start_check
       \/ run_all_checks
       \/ _run_check_deliver
       \/ _run_check_finally
       \/ _update_results
       \/ _show_error
       \/ _check_complete
       \/ reset_app
    /\ UNCHANGED << system, resolverVars, legacyVars >>

Spec == Init /\ [][Next]_vars

\* root.mainloop() takes the callback scheduled first off the queue and
\* runs it (one of _update_results, _show_error, _check_complete).
mainloop == after_queue # << >> /\ after_queue' = Tail(after_queue)

GuiOnly == UNCHANGED << system, resolverVars, legacyVars >>

\* The worker thread runs on (run_all_checks terminates, the thread is
\* scheduled), and the main loop keeps running the callbacks it was given:
\* weak fairness of mainloop, written out with its enabling condition
\* after_queue # << >>.
Fairness ==
    /\ WF_vars(run_all_checks /\ GuiOnly)
    /\ WF_vars(_run_check_deliver /\ GuiOnly)
    /\ WF_vars(_run_check_finally /\ GuiOnly)
    /\ ([]<>(after_queue = << >>) \/ []<><<mainloop>>_vars)

SpecFair == Spec /\ Fairness

---------------------------------------------------------------------------
(* Specification of the topology statuses: one evaluation of the status    *)
(* expressions of _update_results on one report.                           *)

\* the statuses _update_results passes to _draw_topology_map for results
TopologyStatuses(results) ==
    [gw |-> GwStatus(results), internet |-> InternetStatus(results),
     dc |-> DcStatus(results)]

\* probe texts as ping prints them on Windows and on Linux
StatusTexts ==
    { "Pinging 192.168.1.1 with 32 bytes of data:\nReply from 192.168.1.1: bytes=32 time<1ms TTL=64",
      "PING 10.0.0.1 (10.0.0.1) 56(84) bytes of data.\n64 bytes from 10.0.0.1: icmp_seq=1 ttl=64 time=0.5 ms",
      "64 bytes from 10.0.0.1: icmp_seq=1 ttl=64 time=0.5 ms",
      "Pinging 192.168.1.1 with 32 bytes of data:\nRequest timed out.",
      "Ping failed",
      "" }

\* values of the report's logon_server field
LogonServers == { "\\\\DC01", "N/A", "Not available", "" }

StatusReports ==
    { Report("192.168.1.23", "eth0", ls, gw[1], gw[2], ip,
             << << "google.com", "142.250.72.14" >> >>) :
        ls \in LogonServers,
        gw \in { << None, None >> }
                 \cup { << Some("192.168.1.1"), Some(t) >> : t \in StatusTexts },
        ip \in StatusTexts }

CallTopologyStatuses ==
    \E r \in StatusReports :
        /\ call = Idle
        /\ call' = [fn |-> "_update_results", arg |-> "",
                    outcome |-> [kind |-> "ok", output |-> "", results |-> r]]
        /\ ret' = Ret(TopologyStatuses(r))

NextStatuses ==
    /\ CallTopologyStatuses
    /\ UNCHANGED << system, legacyVars, guiVars >>

SpecStatuses == InitResolvers /\ [][NextStatuses]_vars

---------------------------------------------------------------------------
(* Claims about the resolvers and parsers (checked under SpecResolvers)    *)

Resolvers ==
    {"get_default_gateway", "get_ip_and_interface", "get_logon_server",
     "ping", "dns_query"}

\* C1 (as claimed): whatever the OS call of a resolver does, the resolver
\* returns a value and raises nothing; ping returns "Ping failed" when its
\* process cannot be launched.
C1_ResolversNeverRaise ==
    call.fn \in Resolvers =>
        /\ ~ret.raised
        /\ (call.fn = "ping" /\ call.outcome.kind = "FileNotFoundError"
                => ret.val = "Ping failed")

\* the lines the gateway parser scanned in the last call
GwLines == SplitLines(call.outcome.output)

\* line i carries the platform's gateway pattern
GwPattern(i) ==
    IF system = "windows" THEN Contains(GwLines[i], "Default Gateway")
    ELSE StartsWith(GwLines[i], "default via")

\* line i has the number of tokens the platform asks for
GwEnoughTokens(i) ==
    Len(Split(GwLines[i])) >= (IF system = "windows" THEN 4 ELSE 3)

\* the token the platform takes from line i
GwToken(i) ==
    LET parts == Split(GwLines[i])
    IN IF system = "windows" THEN parts[Len(parts)] ELSE parts[3]

GwQualifies(i) == GwPattern(i) /\ GwEnoughTokens(i)

GwParsed == call.fn = "get_default_gateway" /\ call.outcome.kind = "ok"

\* C7: the gateway parser returns the last token of a "Default Gateway" line
\* with at least 4 tokens (Windows), the 3rd token of a "default via..." line
\* with at least 3 tokens (POSIX), and absent when no line qualifies; the two
\* sample lines of the specification give 192.168.1.1 and 10.0.0.1.
C7_GatewayParser ==
    GwParsed =>
        /\ ~ret.raised
        /\ (ret.val.isNone <=> ~ \E i \in 1..Len(GwLines) : GwQualifies(i))
        /\ (~ret.val.isNone =>
                \E i \in 1..Len(GwLines) : GwQualifies(i) /\ ret.val.s = GwToken(i))
        /\ (system = "windows"
              /\ call.outcome.output = "   Default Gateway . . . . . . . : 192.168.1.1"
                => ret.val = Some("192.168.1.1"))
        /\ (system = "posix" /\ call.outcome.output = "default via 10.0.0.1 dev eth0"
                => ret.val = Some("10.0.0.1"))

C7_Witness ==
    /\ GwParsed
    /\ system = "posix"
    /\ call.outcome.output = "default via 10.0.0.1 dev eth0"
    /\ ret.val = Some("10.0.0.1")

\* first line that carries the platform's pattern (0 if none)
GwFirstPattern ==
    IF \E i \in 1..Len(GwLines) : GwPattern(i)
    THEN CHOOSE i \in 1..Len(GwLines) : GwPattern(i) /\ \A j \in 1..(i - 1) : ~GwPattern(j)
    ELSE 0

\* first line that carries the pattern and has enough tokens (0 if none)
GwFirstQualifying ==
    IF \E i \in 1..Len(GwLines) : GwQualifies(i)
    THEN CHOOSE i \in 1..Len(GwLines) : GwQualifies(i) /\ \A j \in 1..(i - 1) : ~GwQualifies(j)
    ELSE 0

\* C8 (as claimed): the result is decided by the first line carrying the
\* pattern alone: its token if it has enough tokens, absent otherwise.
C8_FirstPatternLineDecides ==
    GwParsed =>
        ret.val = (IF GwFirstPattern = 0 THEN None
                   ELSE IF GwEnoughTokens(GwFirstPattern)
                        THEN Some(GwToken(GwFirstPattern))
                        ELSE None)

\* C8 (amended): lines carrying the pattern with too few tokens are skipped;
\* the result is the token of the first line that carries the pattern and
\* has enough tokens, and the lines after that one do not influence it.
C8_FirstQualifyingLineDecides ==
    GwParsed =>
        /\ ret.val = (IF GwFirstQualifying = 0 THEN None
                      ELSE Some(GwToken(GwFirstQualifying)))
        /\ (GwFirstQualifying # 0 =>
                ret.val = ParseGateway(system,
                              JoinNl(SubSeq(GwLines, 1, GwFirstQualifying))))

C8_Witness ==
    /\ GwParsed
    /\ system = "windows"
    /\ GwFirstPattern = 1 /\ ~GwEnoughTokens(1)
    /\ GwFirstQualifying = 2
    /\ ret.val = Some(GwToken(2))

\* the probe text shows a reply: a line containing "Reply from" or a
\* byte-count reply line ("64 bytes from ...")
ShowsReply(text) ==
    \E i \in 1..Len(SplitNl(text)) :
        \/ Contains(SplitNl(text)[i], "Reply from")
        \/ Contains(Lower(SplitNl(text)[i]), "bytes from")

\* C9 (as claimed): the summary is "Success" only for a text that shows a
\* reply; a text with "Request timed out." and no reply is not "Success".
C9_SuccessOnlyOnReply ==
    call.fn = "_parse_ping_output" =>
        /\ (ret.val = "Success" => ShowsReply(call.arg))
        /\ (Contains(call.arg, "Request timed out.") /\ ~ShowsReply(call.arg)
                => ret.val # "Success")

\* C10: dns_query calls the resolver once, returns the resolver's address
\* when the call succeeds and "DNS resolution failed" when it reports an
\* error, and raises nothing.
C10_DnsQuery ==
    call.fn = "dns_query" =>
        /\ ret.lookups = 1
        /\ ~ret.raised
        /\ (call.outcome.kind = "ok" => ret.val = call.outcome.output)
        /\ (call.outcome.kind # "ok" => ret.val = "DNS resolution failed")

C10_Witness ==
    /\ call.fn = "dns_query"
    /\ call.outcome.kind = "herror"
    /\ ret.val = "DNS resolution failed"

---------------------------------------------------------------------------
(* Claims about check_connection (checked under SpecLegacy)                *)

Ran == run.calls # << >>

Called(fn) == \E i \in 1..Len(run.calls) : run.calls[i].fn = fn

\* the hosts probed in the last run, in order
Probed == SelectSeq(run.calls, LAMBDA c : c.fn = "ping")

\* C2 (as claimed): in a run every step is executed, the DNS lookup
\* included, and its result recorded, whatever fails in an earlier step.
C2_EveryStepRuns ==
    Ran =>
        /\ Called("get_default_gateway")
        /\ Called("get_ip_and_interface")
        /\ Called("get_logon_server")
        /\ Called("dns_query")
        /\ dns_result # ""

\* C3 (as claimed): when the gateway resolver returned an address, the run
\* probes exactly that address; when it returned absent, the run probes
\* nothing and the gateway result reads "Gateway not found".
C3_ProbeFollowsGateway ==
    Ran /\ run.returned =>
        IF Truthy(run.gateway)
        THEN Probed = << Step("ping", run.gateway.s) >>
        ELSE Probed = << >> /\ gw_result = "Gateway not found"

\* the StringVars a run shows when it runs to its end from a cleared display
CompleteDisplays ==
    { CheckConnection(system, env, Cleared).vars5 :
        env \in { e \in LegacyEnvs : ~CheckConnection(system, e, Cleared).raised } }

\* C4 (as claimed): the five result fields are all cleared or all taken from
\* one complete report.
C4_AllOrNothing ==
    StringVars5 = Cleared \/ StringVars5 \in CompleteDisplays

\* the order of the specification: interface, gateway, gateway probe,
\* internet anchor probe, DNS, logon server
ClaimedOrder(gateway) ==
    << Step("get_ip_and_interface", ""), Step("get_default_gateway", "") >>
        \o (IF Truthy(gateway) THEN << Step("ping", gateway.s) >> ELSE << >>)
        \o << Step("ping", "8.8.8.8"), Step("dns_query", "google.com"),
              Step("get_logon_server", "") >>

ActualOrder(gateway) ==
    << Step("get_default_gateway", ""), Step("get_ip_and_interface", ""),
       Step("get_logon_server", "") >>
        \o (IF Truthy(gateway) THEN << Step("ping", gateway.s) >> ELSE << >>)
        \o << Step("dns_query", "google.com") >>

IsPrefix(p, q) == Len(p) <= Len(q) /\ p = SubSeq(q, 1, Len(p))

---------------------------------------------------------------------------
(* Claims about NetworkCheckerGUI (checked under Spec)                     *)

\* C6: at most one run_all_checks is in flight at any time; start_check
\* starts a worker only when is_checking is false, and is_checking goes back
\* to false only when no worker is inside run_all_checks.
C6_OneCheckInFlight ==
    /\ [](InFlight <= 1)
    /\ [][/\ (Len(threads') > Len(threads) => ~is_checking)
          /\ (is_checking /\ ~is_checking' => InFlight = 0)]_vars

C6_Witness ==
    /\ InFlight = 1
    /\ Len(threads) = 2
    /\ threads[1].pc = "done"
    /\ clicks = 3


\* the callbacks scheduled so far, in scheduling order: those already run,
\* then those still in the queue
Scheduled ==
    [k \in 1..(Len(log) + Len(after_queue)) |->
        IF k <= Len(log) THEN [fn |-> log[k].fn, check |-> log[k].check]
        ELSE [fn |-> after_queue[k - Len(log)].fn,
              check |-> after_queue[k - Len(log)].check]]

\* the callbacks scheduled for check i, in order
ScheduledFor(i) ==
    LET mine == SelectSeq(Scheduled, LAMBDA c : c.check = i)
    IN [k \in 1..Len(mine) |-> mine[k].fn]

\* the one delivery check i owes the UI
DeliveryOf(i) ==
    IF threads[i].outcome.raised THEN "_show_error" ELSE "_update_results"

Deliveries == {"_update_results", "_show_error"}

\* C11: every started check gets exactly one delivery, _update_results with
\* its report or _show_error, scheduled before its _check_complete; a
\* delivery runs only while is_checking is true and the check button is
\* still disabled.
C11_OneDeliveryBeforeComplete ==
    /\ \A i \in 1..Len(threads) :
          ScheduledFor(i) =
              CASE threads[i].pc \in {"run_all_checks", "deliver"} -> << >>
                [] threads[i].pc = "finally" -> << DeliveryOf(i) >>
                [] OTHER -> << DeliveryOf(i), "_check_complete" >>
    /\ \A k \in 1..Len(log) :
          log[k].fn \in Deliveries =>
              /\ log[k].is_checking
              /\ log[k].check_button = "disabled"
              /\ (log[k].fn = "_update_results" =>
                      log[k].results = threads[log[k].check].outcome.results)

C11_Witness ==
    /\ Len(log) = 4
    /\ log[1].fn = "_update_results"
    /\ log[2].fn = "_check_complete"
    /\ log[3].fn = "_show_error"
    /\ log[4].fn = "_check_complete"

\* C13: once is_checking is true, _check_complete eventually runs:
\* is_checking is false again and both buttons are enabled.
C13_CheckCompletes ==
    is_checking ~>
        (~is_checking /\ check_button.state = "normal" /\ reset_button.state = "normal")

C13_Witness ==
    /\ ~is_checking
    /\ check_button.state = "normal" /\ reset_button.state = "normal"
    /\ \E i \in 1..Len(threads) :
          /\ threads[i].outcome.raised
          /\ ScheduledFor(i) = << "_show_error", "_check_complete" >>
    /\ \E k \in 1..Len(log) : log[k].fn = "_check_complete" /\ log[k].is_checking

\* a check is in progress: its worker has not yet handed over its outcome,
\* or the delivery is still waiting in the queue
InProgress ==
    \/ \E i \in 1..Len(threads) : threads[i].pc \in {"run_all_checks", "deliver"}
    \/ \E k \in 1..Len(after_queue) : after_queue[k].fn \in Deliveries

\* C14 (as claimed): while a check is in progress the status label reads
\* "Running diagnostics...", and it reads "Ready" only when none is.
C14_RunningWhileInProgress ==
    /\ (InProgress => status_label = "Running diagnostics...")
    /\ (status_label = "Ready" => ~InProgress)

---------------------------------------------------------------------------
(* Claims about the topology statuses (checked under SpecStatuses)         *)

Digits == {"0", "1", "2", "3", "4", "5", "6", "7", "8", "9"}

\* line begins with a byte count followed by " bytes from"
BeginsWithByteCount(line) ==
    \E n \in 1..Len(line) :
        /\ \A k \in 1..n : CharAt(line, k) \in Digits
        /\ StartsWith(SubSeq(line, n + 1, Len(line)), " bytes from")

\* the probe success markers of the specification: a line containing
\* "Reply from", or a line beginning with a byte-count pattern
HasSuccessMarker(text) ==
    \E i \in 1..Len(SplitNl(text)) :
        \/ Contains(SplitNl(text)[i], "Reply from")
        \/ BeginsWithByteCount(SplitNl(text)[i])

StatusesOf == call.fn = "_update_results"

StatusInput == call.outcome.results

\* C12 (as claimed): the gateway and internet statuses are "success" exactly
\* when the probe text has a success marker, and the gateway status is
\* "unknown" exactly when no gateway was found.
C12_SuccessIffMarker ==
    StatusesOf =>
        /\ (ret.val.gw = "success" <=>
                Truthy(StatusInput.gateway)
                    /\ HasSuccessMarker(StatusInput.gateway_ping.s))
        /\ (ret.val.internet = "success" <=>
                HasSuccessMarker(StatusInput.internet_ping))
        /\ (ret.val.gw = "unknown" <=> ~Truthy(StatusInput.gateway))

\* the values of logon_server that stand for "no logon server"
LogonSentinels == { "N/A", "Not available", "" }

\* C15 (as claimed): the Domain Controller status is "success" only for an
\* actual server name and "failure" for every sentinel value.
C15_DcSuccessOnlyForServer ==
    StatusesOf =>
        /\ (ret.val.dc = "success" => StatusInput.logon_server \notin LogonSentinels)
        /\ (StatusInput.logon_server \in LogonSentinels => ret.val.dc = "failure")

---------------------------------------------------------------------------
(* A further claim about the gateway parser (checked under SpecResolvers)  *)

\* the tokens of the "Default Gateway . . . :" label and its punctuation
LabelTokens == { "Default", "Gateway", ".", ":" }

\* the Windows line i carries the label and nothing else
GwLabelOnly(i) ==
    /\ GwPattern(i)
    /\ \A k \in 1..Len(Split(GwLines[i])) : Split(GwLines[i])[k] \in LabelTokens

\* C16 (as claimed): the gateway parser returns absent or the address of the
\* matched line, never a token of the label or its punctuation; a Windows
\* output whose only "Default Gateway" lines carry no address gives absent.
C16_NeverALabelToken ==
    GwParsed =>
        /\ (~ret.val.isNone => ret.val.s \notin LabelTokens)
        /\ (system = "windows"
              /\ (\A i \in 1..Len(GwLines) : GwPattern(i) => GwLabelOnly(i))
                => ret.val.isNone)

============================================================================
